---- MODULE Spec2Model ----
(***************************************************************************)
(* Model of the App component of vehicle-number-identifier                 *)
(* (src/src/App.js; src/unnamed/part_000 is the same code with comments).  *)
(* One action per handler: file selection, the upload's progress /         *)
(* completion / failure callbacks, the WebSocket open / message / error /  *)
(* close handlers, the 15 s response timer, and the unmount cleanup.       *)
(* Everything runs on one event loop, so each handler is one atomic step;  *)
(* the continuation of processImage after `await uploadFileToS3` runs in   *)
(* the same microtask checkpoint as the upload's completion and is part of *)
(* that step.                                                              *)
(***************************************************************************)
EXTENDS Integers, Sequences, FiniteSets, TLC

VARIABLES
    image,                \* useState: name of the selected file, or "null"
    message,              \* useState: the status label
    ws,                   \* useState: "undefined" or "socket"
    numberPlate,          \* useState: the result label
    socketStatusColour,   \* useState: the connection indicator
    responseTimeoutRef,   \* useRef: 0 (null) or the id of a timer
    readyState,           \* WebSocket.readyState of the socket
    timers,               \* timer id -> "none" | "pending" | "fired" | "cleared"
    session,              \* one record per processImage invocation
    nSessions,            \* number of processImage invocations so far
    wire,                 \* frames handed to ws.send, in order
    mounted,              \* FALSE once the cleanup of the first effect ran
    errorFired,           \* the socket has raised its error event
    closeFired,           \* the socket has raised its close event
    lastEvent             \* the input of the handler that ran last

vars == << image, message, ws, numberPlate, socketStatusColour,
           responseTimeoutRef, readyState, timers, session, nSessions,
           wire, mounted, errorFired, closeFired, lastEvent >>

----------------------------------------------------------------------------
(* Bounds *)

MaxSessions == 2

Sessions == 1..MaxSessions

(* Program constants *)

bucketName == "vehicle-identifier-bucket"

NoFile == [name |-> "", size |-> 0]

Files == { [name |-> "car.jpg", size |-> 1000000],
           [name |-> "van.png", size |-> 0] }

Loadeds == {250000, 625000, 1500000}

Totals == {0, 1000000}

FramePlate == "{\"message\":\"KA-01-HH-1234\"}"

FrameNoField == "{\"status\":\"ok\"}"

FrameNull == "null"

FrameGarbage == "Internal server error"

Frames == {FramePlate, FrameNoField, FrameNull, FrameGarbage}

NoEvent == [op |-> "none", s |-> 0, loaded |-> 0, total |-> 0, data |-> ""]

Ev(op, s, loaded, total, data) ==
    [op |-> op, s |-> s, loaded |-> loaded, total |-> total, data |-> data]

----------------------------------------------------------------------------
(* Pure helpers *)

Min(a, b) == IF a < b THEN a ELSE b

\* Math.round for a non-negative quotient n/d: nearest integer, halves up.
MathRound(n, d) == (2 * n + d) \div (2 * d)

\* JSON.parse on the frames the model delivers.
JSONparse(data) ==
    CASE data = FramePlate ->
            [ok |-> TRUE, isObject |-> TRUE, hasMessage |-> TRUE,
             message |-> "KA-01-HH-1234"]
      [] data = FrameNoField ->
            [ok |-> TRUE, isObject |-> TRUE, hasMessage |-> FALSE,
             message |-> "undefined"]
      [] data = FrameNull ->
            [ok |-> TRUE, isObject |-> FALSE, hasMessage |-> FALSE,
             message |-> "undefined"]
      [] OTHER ->
            [ok |-> FALSE, isObject |-> FALSE, hasMessage |-> FALSE,
             message |-> "undefined"]

\* clearTimeout(id): a pending timer is cancelled, anything else is a no-op.
clearTimeout(ts, id) ==
    IF id \in DOMAIN ts /\ ts[id] = "pending"
    THEN [ts EXCEPT ![id] = "cleared"]
    ELSE ts

----------------------------------------------------------------------------
Init ==
    /\ image = "null"
    /\ message = ""
    /\ ws = "undefined"
    /\ numberPlate = ""
    /\ socketStatusColour = "grey"
    /\ responseTimeoutRef = 0
    /\ readyState = "NONE"
    /\ timers = [t \in Sessions |-> "none"]
    /\ session = [s \in Sessions |->
                    [pc |-> "unused", file |-> NoFile, ws |-> "undefined"]]
    /\ nSessions = 0
    /\ wire = << >>
    /\ mounted = TRUE
    /\ errorFired = FALSE
    /\ closeFired = FALSE
    /\ lastEvent = NoEvent

----------------------------------------------------------------------------
(* Mount: the first effect creates the socket and stores it with setWs; the *)
(* second effect then attaches the four handlers to it.                     *)
ConnectEffect ==
    /\ mounted
    /\ ws = "undefined"
    /\ ws' = "socket"
    /\ readyState' = "CONNECTING"
    /\ lastEvent' = Ev("connect", 0, 0, 0, "")
    /\ UNCHANGED << image, message, numberPlate, socketStatusColour,
                    responseTimeoutRef, timers, session, nSessions, wire,
                    mounted, errorFired, closeFired >>

\* ws.onopen
OnOpen ==
    /\ ws = "socket"
    /\ readyState = "CONNECTING"
    /\ readyState' = "OPEN"
    /\ socketStatusColour' = "green"
    /\ lastEvent' = Ev("open", 0, 0, 0, "")
    /\ UNCHANGED << image, message, ws, numberPlate, responseTimeoutRef,
                    timers, session, nSessions, wire, mounted, errorFired,
                    closeFired >>

\* The body of ws.onmessage for the frame `data`.
onmessage(data) ==
    LET parsed == JSONparse(data)
    IN  /\ timers' = IF responseTimeoutRef # 0
                     THEN clearTimeout(timers, responseTimeoutRef)
                     ELSE timers
        /\ responseTimeoutRef' = 0
        /\ IF parsed.ok /\ parsed.isObject
           THEN /\ message' = "Completed"
                /\ numberPlate' = "Number plate: " \o parsed.message
           ELSE UNCHANGED << message, numberPlate >>

OnMessage ==
    /\ ws = "socket"
    /\ readyState = "OPEN"
    /\ \E data \in Frames :
         /\ onmessage(data)
         /\ lastEvent' = Ev("message", 0, 0, 0, data)
    /\ UNCHANGED << image, ws, socketStatusColour, readyState, session,
                    nSessions, wire, mounted, errorFired, closeFired >>

\* Variant of OnError that leaves the indicator as it was.
OnError_NoColour ==
    /\ ws = "socket"
    /\ readyState \in {"CONNECTING", "OPEN", "CLOSING"}
    /\ ~errorFired /\ ~closeFired
    /\ readyState' = "CLOSED"
    /\ errorFired' = TRUE
    /\ message' = "WebSocket error while processing image"
    /\ lastEvent' = Ev("error", 0, 0, 0, "")
    /\ UNCHANGED << image, ws, numberPlate, socketStatusColour,
                    responseTimeoutRef, timers, session, nSessions, wire,
                    mounted, closeFired >>

\* ws.onerror; the socket is CLOSED when its error event is dispatched.
OnError ==
    /\ ws = "socket"
    /\ readyState \in {"CONNECTING", "OPEN", "CLOSING"}
    /\ ~errorFired /\ ~closeFired
    /\ readyState' = "CLOSED"
    /\ errorFired' = TRUE
    /\ socketStatusColour' = "red"
    /\ message' = "WebSocket error while processing image"
    /\ lastEvent' = Ev("error", 0, 0, 0, "")
    /\ UNCHANGED << image, ws, numberPlate, responseTimeoutRef, timers,
                    session, nSessions, wire, mounted, closeFired >>

\* Variant of OnClose that opens a new connection (a reconnect).
OnClose_Reconnect ==
    /\ ws = "socket"
    /\ readyState \in {"OPEN", "CLOSING", "CLOSED"}
    /\ ~closeFired
    /\ readyState' = "CONNECTING"
    /\ closeFired' = TRUE
    /\ socketStatusColour' = "grey"
    /\ lastEvent' = Ev("close", 0, 0, 0, "")
    /\ UNCHANGED << image, message, ws, numberPlate, responseTimeoutRef,
                    timers, session, nSessions, wire, mounted, errorFired >>

\* ws.onclose
OnClose ==
    /\ ws = "socket"
    /\ readyState \in {"OPEN", "CLOSING", "CLOSED"}
    /\ ~closeFired
    /\ readyState' = "CLOSED"
    /\ closeFired' = TRUE
    /\ socketStatusColour' = "grey"
    /\ lastEvent' = Ev("close", 0, 0, 0, "")
    /\ UNCHANGED << image, message, ws, numberPlate, responseTimeoutRef,
                    timers, session, nSessions, wire, mounted, errorFired >>

\* processImage up to its first await (uploadFileToS3 up to done()).
ProcessImage ==
    /\ mounted
    /\ nSessions < MaxSessions
    /\ \E file \in Files \cup {NoFile} :
         IF file = NoFile
         THEN /\ lastEvent' = Ev("select", 0, 0, 0, "")
              /\ UNCHANGED << image, message, numberPlate, session, nSessions >>
         ELSE /\ nSessions' = nSessions + 1
              /\ numberPlate' = "Number plate: ....."
              /\ image' = file.name
              /\ message' = "Uploading... 0%"
              /\ session' = [session EXCEPT ![nSessions + 1] =
                               [pc |-> "upload", file |-> file, ws |-> ws]]
              /\ lastEvent' = Ev("select", nSessions + 1, 0, 0, "")
    /\ UNCHANGED << ws, socketStatusColour, responseTimeoutRef, readyState,
                    timers, wire, mounted, errorFired, closeFired >>

\* Variant of ProgressStatus without the Math.min(100, ...) clamp.
ProgressStatus_NoClamp(loaded, evTotal, size) ==
    LET total == IF evTotal # 0 THEN evTotal ELSE size
    IN  IF total > 0
        THEN "Uploading... " \o ToString(MathRound(loaded * 100, total)) \o "%"
        ELSE "Uploading..."

\* Variant of ProgressStatus without the fallback to image.size.
ProgressStatus_NoFallback(loaded, evTotal, size) ==
    IF evTotal > 0
    THEN "Uploading... "
           \o ToString(Min(100, MathRound(loaded * 100, evTotal))) \o "%"
    ELSE "Uploading..."

\* The status the httpUploadProgress handler publishes for one event.
ProgressStatus(loaded, evTotal, size) ==
    LET total == IF evTotal # 0 THEN evTotal ELSE size
    IN  IF total > 0
        THEN "Uploading... "
               \o ToString(Min(100, MathRound(loaded * 100, total))) \o "%"
        ELSE "Uploading..."

UploadProgress ==
    \E s \in Sessions, loaded \in Loadeds, total \in Totals :
      /\ session[s].pc = "upload"
      /\ message' = ProgressStatus(loaded, total, session[s].file.size)
      /\ lastEvent' = Ev("progress", s, loaded, total, "")
      /\ UNCHANGED << image, ws, numberPlate, socketStatusColour,
                      responseTimeoutRef, readyState, timers, session,
                      nSessions, wire, mounted, errorFired, closeFired >>

\* Variant of sendMessage without the readyState guard.
sendMessage_NoReadyCheck(s, sendThrows) ==
    IF sendThrows
    THEN /\ message' = "Failed to send message to websocket"
         /\ session' = [session EXCEPT ![s].pc = "sendFailed"]
         /\ UNCHANGED << wire, timers, responseTimeoutRef >>
    ELSE /\ wire' = Append(wire,
                      [by |-> s,
                       action |-> "sendVehicleInfo",
                       bucket |-> bucketName,
                       key |-> session[s].file.name])
         /\ message' = "Processing image...."
         /\ timers' = [timers EXCEPT ![s] = "pending"]
         /\ responseTimeoutRef' = s
         /\ session' = [session EXCEPT ![s].pc = "sent"]

\* Variant of sendMessage that takes the key from the `image` state instead of
\* its imageName argument.
sendMessage_KeyFromState(s, sendThrows) ==
    IF session[s].ws = "undefined"
    THEN /\ message' = "WebSocket is not connected"
         /\ session' = [session EXCEPT ![s].pc = "notConnected"]
         /\ UNCHANGED << wire, timers, responseTimeoutRef >>
    ELSE IF readyState # "OPEN"
    THEN /\ message' = "WebSocket not ready yet. Please try again in a moment"
         /\ session' = [session EXCEPT ![s].pc = "notReady"]
         /\ UNCHANGED << wire, timers, responseTimeoutRef >>
    ELSE IF sendThrows
    THEN /\ message' = "Failed to send message to websocket"
         /\ session' = [session EXCEPT ![s].pc = "sendFailed"]
         /\ UNCHANGED << wire, timers, responseTimeoutRef >>
    ELSE /\ wire' = Append(wire,
                      [by |-> s,
                       action |-> "sendVehicleInfo",
                       bucket |-> bucketName,
                       key |-> image])
         /\ message' = "Processing image...."
         /\ timers' = [timers EXCEPT ![s] = "pending"]
         /\ responseTimeoutRef' = s
         /\ session' = [session EXCEPT ![s].pc = "sent"]

\* Variant of sendMessage that starts the timer before calling ws.send.
sendMessage_TimerBeforeSend(s, sendThrows) ==
    IF session[s].ws = "undefined"
    THEN /\ message' = "WebSocket is not connected"
         /\ session' = [session EXCEPT ![s].pc = "notConnected"]
         /\ UNCHANGED << wire, timers, responseTimeoutRef >>
    ELSE IF readyState # "OPEN"
    THEN /\ message' = "WebSocket not ready yet. Please try again in a moment"
         /\ session' = [session EXCEPT ![s].pc = "notReady"]
         /\ UNCHANGED << wire, timers, responseTimeoutRef >>
    ELSE IF sendThrows
    THEN /\ message' = "Failed to send message to websocket"
         /\ timers' = [timers EXCEPT ![s] = "pending"]
         /\ responseTimeoutRef' = s
         /\ session' = [session EXCEPT ![s].pc = "sendFailed"]
         /\ UNCHANGED wire
    ELSE /\ wire' = Append(wire,
                      [by |-> s,
                       action |-> "sendVehicleInfo",
                       bucket |-> bucketName,
                       key |-> session[s].file.name])
         /\ message' = "Processing image...."
         /\ timers' = [timers EXCEPT ![s] = "pending"]
         /\ responseTimeoutRef' = s
         /\ session' = [session EXCEPT ![s].pc = "sent"]

\* sendMessage(imageName) called by session s; sendThrows: ws.send throws.
sendMessage(s, sendThrows) ==
    IF session[s].ws = "undefined"
    THEN /\ message' = "WebSocket is not connected"
         /\ session' = [session EXCEPT ![s].pc = "notConnected"]
         /\ UNCHANGED << wire, timers, responseTimeoutRef >>
    ELSE IF readyState # "OPEN"
    THEN /\ message' = "WebSocket not ready yet. Please try again in a moment"
         /\ session' = [session EXCEPT ![s].pc = "notReady"]
         /\ UNCHANGED << wire, timers, responseTimeoutRef >>
    ELSE IF sendThrows
    THEN /\ message' = "Failed to send message to websocket"
         /\ session' = [session EXCEPT ![s].pc = "sendFailed"]
         /\ UNCHANGED << wire, timers, responseTimeoutRef >>
    ELSE /\ wire' = Append(wire,
                      [by |-> s,
                       action |-> "sendVehicleInfo",
                       bucket |-> bucketName,
                       key |-> session[s].file.name])
         /\ message' = "Processing image...."
         /\ timers' = [timers EXCEPT ![s] = "pending"]
         /\ responseTimeoutRef' = s
         /\ session' = [session EXCEPT ![s].pc = "sent"]

\* Variant of AfterUpload that notifies whatever the upload's result.
AfterUpload_AlwaysSend(s, uploadResult, sendThrows) ==
    sendMessage(s, sendThrows)

\* processImage after `await uploadFileToS3(selectedImage)`.
AfterUpload(s, uploadResult, sendThrows) ==
    IF uploadResult
    THEN sendMessage(s, sendThrows)
    ELSE /\ message' = "Upload is failed"
         /\ session' = [session EXCEPT ![s].pc = "uploadFailed"]
         /\ UNCHANGED << wire, timers, responseTimeoutRef >>

\* parallelUploads3.done() resolves: "Upload is done", return true, send.
UploadDone ==
    \E s \in Sessions, sendThrows \in BOOLEAN :
      /\ session[s].pc = "upload"
      /\ AfterUpload(s, TRUE, sendThrows)
      /\ lastEvent' = Ev("done", s, 0, 0, "")
      /\ UNCHANGED << image, ws, numberPlate, socketStatusColour, readyState,
                      nSessions, mounted, errorFired, closeFired >>

\* parallelUploads3.done() rejects: the catch block, return false.
UploadFail ==
    \E s \in Sessions :
      /\ session[s].pc = "upload"
      /\ AfterUpload(s, FALSE, FALSE)
      /\ lastEvent' = Ev("failed", s, 0, 0, "")
      /\ UNCHANGED << image, ws, numberPlate, socketStatusColour, readyState,
                      nSessions, mounted, errorFired, closeFired >>

\* Variant of TimerFire whose callback also resets the result label.
TimerFire_ResetsPlate ==
    \E t \in Sessions :
      /\ timers[t] = "pending"
      /\ timers' = [timers EXCEPT ![t] = "fired"]
      /\ message' = "No response from server yet. Check backend logs."
      /\ numberPlate' = "Number plate: ....."
      /\ lastEvent' = Ev("timeout", t, 0, 0, "")
      /\ UNCHANGED << image, ws, socketStatusColour, responseTimeoutRef,
                      readyState, session, nSessions, wire, mounted,
                      errorFired, closeFired >>

\* The callback given to setTimeout in sendMessage.
TimerFire ==
    \E t \in Sessions :
      /\ timers[t] = "pending"
      /\ timers' = [timers EXCEPT ![t] = "fired"]
      /\ message' = "No response from server yet. Check backend logs."
      /\ lastEvent' = Ev("timeout", t, 0, 0, "")
      /\ UNCHANGED << image, ws, numberPlate, socketStatusColour,
                      responseTimeoutRef, readyState, session, nSessions,
                      wire, mounted, errorFired, closeFired >>

\* The cleanup returned by the first effect.
Unmount ==
    /\ mounted
    /\ ws = "socket"
    /\ mounted' = FALSE
    /\ timers' = IF responseTimeoutRef # 0
                 THEN clearTimeout(timers, responseTimeoutRef)
                 ELSE timers
    /\ readyState' = IF readyState \in {"CONNECTING", "OPEN"}
                     THEN "CLOSING" ELSE readyState
    /\ lastEvent' = Ev("unmount", 0, 0, 0, "")
    /\ UNCHANGED << image, message, ws, numberPlate, socketStatusColour,
                    responseTimeoutRef, session, nSessions, wire, errorFired,
                    closeFired >>

Next ==
    \/ ConnectEffect
    \/ OnOpen
    \/ OnMessage
    \/ OnError
    \/ OnClose
    \/ ProcessImage
    \/ UploadProgress
    \/ UploadDone
    \/ UploadFail
    \/ TimerFire
    \/ Unmount

Spec == Init /\ [][Next]_vars

TypeOK ==
    /\ ws \in {"undefined", "socket"}
    /\ readyState \in {"NONE", "CONNECTING", "OPEN", "CLOSING", "CLOSED"}
    /\ responseTimeoutRef \in 0..MaxSessions
    /\ nSessions \in 0..MaxSessions
    /\ \A t \in Sessions : timers[t] \in {"none", "pending", "fired", "cleared"}
    /\ Len(wire) <= MaxSessions

----------------------------------------------------------------------------
(* Vocabulary of the properties *)

\* The session of the latest file selection (0: none yet).
Current == nSessions

SentBy(s) == \E i \in 1..Len(wire) : wire[i].by = s

NotReadyStatuses ==
    { "WebSocket is not connected",
      "WebSocket not ready yet. Please try again in a moment" }

PercentStatus(n) == "Uploading... " \o ToString(n) \o "%"

IsPercentStatus(m) == \E n \in 0..100 : m = PercentStatus(n)

PercentOf(m) == CHOOSE n \in 0..100 : m = PercentStatus(n)

\* round(min(1, loaded/total) * 100) for loaded >= 0 and total > 0.
RoundMinRatio(loaded, total) ==
    IF loaded >= total THEN 100 ELSE MathRound(loaded * 100, total)

----------------------------------------------------------------------------
\* C1: selecting a new file cancels the timer of the session that was
\* awaiting its result: once processImage has started a new session, no timer
\* of an earlier session is pending (so it can neither fire nor overwrite the
\* status of the new session).
C1_SupersedeCancelsTimer ==
    [][ nSessions' > nSessions =>
          \A t \in Sessions : timers'[t] # "pending" ]_vars

\* C2: a progress, completion or failure callback of an upload whose session
\* has been superseded is discarded: it changes neither the status message,
\* nor the frames sent on the channel, nor the timers.
C2_StaleUploadDiscarded ==
    [][ ( /\ lastEvent'.op \in {"progress", "done", "failed"}
          /\ lastEvent'.s < nSessions )
        => ( /\ message' = message
             /\ wire' = wire
             /\ timers' = timers ) ]_vars

\* C3: when sendMessage runs while the socket is absent or its readyState is
\* not OPEN, no frame is sent and no timer is started, the status is the
\* not-connected / not-ready one, and that session never has a frame or a
\* timer afterwards.
C3_NotReadyNoWait ==
    [][ /\ ( /\ lastEvent'.op = "done"
             /\ session[lastEvent'.s].pc = "upload"
             /\ ( session[lastEvent'.s].ws = "undefined"
                  \/ readyState # "OPEN" ) )
           => ( /\ wire' = wire
                /\ timers' = timers
                /\ responseTimeoutRef' = responseTimeoutRef
                /\ message' \in NotReadyStatuses
                /\ session'[lastEvent'.s].pc \in {"notConnected", "notReady"} )
        /\ \A s \in Sessions :
             session[s].pc \in {"notConnected", "notReady"}
               => session'[s].pc = session[s].pc
        /\ \A s \in Sessions :
             session'[s].pc \in {"notConnected", "notReady"}
               => ~SentBy(s)' /\ timers'[s] = "none" ]_vars

\* A session found the socket connecting / closing / closed when it sent.
C3_Witness ==
    /\ lastEvent.op = "done"
    /\ session[lastEvent.s].pc = "notReady"
    /\ message = "WebSocket not ready yet. Please try again in a moment"

\* C4: a valid frame {"message": T} handled while the current session awaits
\* its result publishes "Completed" and "Number plate: T" and cancels that
\* session's timer.
C4_ResultCompletes ==
    [][ ( /\ lastEvent'.op = "message"
          /\ lastEvent'.data = FramePlate
          /\ Current > 0
          /\ session[Current].pc = "sent"
          /\ timers[Current] = "pending" )
        => ( /\ message' = "Completed"
             /\ numberPlate' = "Number plate: KA-01-HH-1234"
             /\ timers'[Current] # "pending" ) ]_vars

\* C5: after a successful send, as long as no result frame has been accepted
\* for the current session (the result label is still the placeholder) and
\* the component is mounted, the session's timer is pending or has fired: the
\* wait never stays open with no timer left to end it.
C5_TimeoutApplied ==
    ( /\ Current > 0
      /\ mounted
      /\ session[Current].pc = "sent"
      /\ numberPlate = "Number plate: ....." )
    => timers[Current] \in {"pending", "fired"}

\* C6: a frame that fails to parse as JSON has no effect: status, result
\* label, timers and the stored timer reference are unchanged.
C6_MalformedIgnored ==
    [][ ( /\ lastEvent'.op = "message"
          /\ ~JSONparse(lastEvent'.data).ok )
        => ( /\ message' = message
             /\ numberPlate' = numberPlate
             /\ timers' = timers
             /\ responseTimeoutRef' = responseTimeoutRef ) ]_vars

\* C7: an error event or a close event of the channel cancels the pending
\* wait: after the handler no timer is pending.
C7_ChannelFailureEndsWait ==
    [][ ( errorFired' # errorFired \/ closeFired' # closeFired )
        => \A t \in Sessions : timers'[t] # "pending" ]_vars

\* C8: when a session's upload fails the status becomes "Upload is failed",
\* nothing is sent and no timer is started in that step, and the session
\* never has a frame on the channel or a timer afterwards.
C8_UploadFailedNoNotify ==
    [][ /\ ( /\ lastEvent'.op = "failed"
             /\ session[lastEvent'.s].pc = "upload" )
           => ( /\ message' = "Upload is failed"
                /\ wire' = wire
                /\ timers' = timers
                /\ responseTimeoutRef' = responseTimeoutRef
                /\ session'[lastEvent'.s].pc = "uploadFailed" )
        /\ \A s \in Sessions :
             session[s].pc = "uploadFailed"
               => session'[s].pc = "uploadFailed"
        /\ \A s \in Sessions :
             session'[s].pc = "uploadFailed"
               => ~SentBy(s)' /\ timers'[s] = "none" ]_vars

\* An upload failed while the channel was open, and the channel went on.
C8_Witness ==
    /\ \E s \in Sessions : session[s].pc = "uploadFailed"
    /\ message = "Upload is failed"
    /\ readyState = "OPEN"
    /\ lastEvent.op = "failed"

\* C9: within one session the published percentages start at 0 and never
\* decrease: a progress event never publishes a smaller percentage than the
\* one published by the previous event of the same session.
C9_ProgressMonotonic ==
    [][ ( /\ lastEvent'.op = "progress"
          /\ lastEvent.op \in {"select", "progress"}
          /\ lastEvent.s = lastEvent'.s
          /\ IsPercentStatus(message)
          /\ IsPercentStatus(message') )
        => PercentOf(message') >= PercentOf(message) ]_vars

\* C10: after a progress event with total > 0 the status is "Uploading... N%"
\* with N = round(min(1, loaded/total) * 100), an integer in 0..100 (also when
\* loaded > total), and for total 1000000 the handler turns the events
\* 250000, 500000, 1000000 into 25, 50, 100.
C10_PercentFormula ==
    ( lastEvent.op = "progress" /\ lastEvent.total > 0 )
    => /\ RoundMinRatio(lastEvent.loaded, lastEvent.total) \in 0..100
       /\ message = PercentStatus(RoundMinRatio(lastEvent.loaded, lastEvent.total))
       /\ ( lastEvent.loaded = 250000 => message = "Uploading... 25%" )
       /\ ( lastEvent.loaded = 625000 => message = "Uploading... 63%" )
       /\ ( lastEvent.loaded = 1500000 => message = "Uploading... 100%" )
       /\ \A size \in {0, 1000000} :
            /\ ProgressStatus(250000, 1000000, size) = "Uploading... 25%"
            /\ ProgressStatus(500000, 1000000, size) = "Uploading... 50%"
            /\ ProgressStatus(1000000, 1000000, size) = "Uploading... 100%"

\* A progress event whose loaded exceeds its total has been published.
C10_Witness ==
    /\ lastEvent.op = "progress"
    /\ lastEvent.loaded > lastEvent.total
    /\ lastEvent.total > 0
    /\ message = "Uploading... 100%"

----------------------------------------------------------------------------
\* The current session has reached a failed outcome: its upload failed, its
\* send was refused or threw, its timer fired, or the channel failed after its
\* notification was sent.
CurrentFailed ==
    /\ Current > 0
    /\ \/ session[Current].pc \in
            {"uploadFailed", "notConnected", "notReady", "sendFailed"}
       \/ /\ session[Current].pc = "sent"
          /\ \/ timers[Current] = "fired"
             \/ errorFired
             \/ closeFired

\* The current session is awaiting its result: its notification has been sent
\* ("Processing image...." is still the status) and it has not been completed,
\* timed out or failed.
CurrentAwaiting ==
    /\ Current > 0
    /\ session[Current].pc = "sent"
    /\ timers[Current] # "fired"
    /\ message = "Processing image...."
    /\ ~errorFired
    /\ ~closeFired

\* C11: there is no reconnect: once the channel has raised its error or close
\* event, no step sends a frame or starts a timer, and every sendMessage that
\* runs afterwards ends refused.
C11_NoSendAfterClose ==
    [][ ( errorFired \/ closeFired )
        => ( /\ wire' = wire
             /\ \A t \in Sessions :
                  timers'[t] = "pending" => timers[t] = "pending"
             /\ ( lastEvent'.op = "done" /\ session[lastEvent'.s].pc = "upload" )
                  => session'[lastEvent'.s].pc \in {"notConnected", "notReady"}
             /\ readyState' = "CLOSED" ) ]_vars

\* An upload completed after the channel had closed, and its send was refused.
C11_Witness ==
    /\ closeFired
    /\ lastEvent.op = "done"
    /\ session[lastEvent.s].pc = "notReady"
    /\ session[lastEvent.s].ws = "socket"

\* C12: after the teardown no timer of any session is pending (so no timeout
\* callback fires) and the channel is closing or closed.
C12_TeardownClearsTimers ==
    ~mounted
    => /\ \A t \in Sessions : timers[t] # "pending"
       /\ readyState \in {"CLOSING", "CLOSED"}

C14_FailureTerminal ==
    [][ ( /\ CurrentFailed
          /\ lastEvent'.op \in {"open", "message", "error", "close", "timeout"} )
        => ( /\ message' = message
             /\ numberPlate' = numberPlate ) ]_vars

\* C15: a timer is pending if and only if the current session is awaiting its
\* result.
C15_PendingIffAwaiting ==
    ( \E t \in Sessions : timers[t] = "pending" ) <=> CurrentAwaiting

\* C16: a notification is never sent while an earlier one is unacknowledged
\* (its timer still pending: no frame received for it, not timed out).
C16_OneUnacknowledged ==
    [][ Len(wire') > Len(wire)
        => \A s \in Sessions : SentBy(s) => timers[s] # "pending" ]_vars

\* C17: a frame that parses as JSON but has no `message` field changes
\* neither the status, nor the result label, nor the timers.
C17_NoFieldDropped ==
    [][ ( /\ lastEvent'.op = "message"
          /\ JSONparse(lastEvent'.data).ok
          /\ ~JSONparse(lastEvent'.data).hasMessage )
        => ( /\ message' = message
             /\ numberPlate' = numberPlate
             /\ timers' = timers ) ]_vars

\* C18: a frame is put on the channel only by the step in which the upload of
\* a session completes successfully, and it is {action: "sendVehicleInfo",
\* message: {bucket: bucketName, key: the name of that session's file}}; this
\* holds of every frame sent, in any interleaving of selections.
C18_NotificationPayload ==
    [][ /\ wire' # wire
           => /\ lastEvent'.op = "done"
              /\ session[lastEvent'.s].pc = "upload"
              /\ wire' = Append(wire,
                           [by |-> lastEvent'.s,
                            action |-> "sendVehicleInfo",
                            bucket |-> "vehicle-identifier-bucket",
                            key |-> session[lastEvent'.s].file.name])
        /\ \A i \in 1..Len(wire') :
             /\ wire'[i].action = "sendVehicleInfo"
             /\ wire'[i].bucket = "vehicle-identifier-bucket"
             /\ wire'[i].key = session'[wire'[i].by].file.name
             /\ session'[wire'[i].by].pc = "sent" ]_vars

\* Two sessions with different files notified in the reverse order of their
\* selection.
C18_Witness ==
    /\ Len(wire) = 2
    /\ wire[1].by = 2
    /\ wire[2].by = 1
    /\ wire[1].key # wire[2].key
    /\ image = wire[1].key

\* C19 (as stated): after a progress event whose total is unknown or zero the
\* status is the indeterminate "Uploading...".
C19_UnknownTotalIndeterminate ==
    ( lastEvent.op = "progress" /\ lastEvent.total = 0 )
    => message = "Uploading..."

\* C19 (amended): the handler uses the event's total or, when that is unknown
\* or zero, the size of the selected file; the status is "Uploading..." when
\* both are zero and the percentage of loaded in that total otherwise.
C19_TotalOrFileSize ==
    lastEvent.op = "progress"
    => LET size == session[lastEvent.s].file.size
           total == IF lastEvent.total # 0 THEN lastEvent.total ELSE size
       IN  /\ total = 0 => message = "Uploading..."
           /\ total > 0 =>
                message = PercentStatus(RoundMinRatio(lastEvent.loaded, total))

\* A progress event without total for a file of size zero, and one for a file
\* whose size is known, have been published.
C19_Witness ==
    /\ lastEvent.op = "progress"
    /\ lastEvent.total = 0
    /\ session[lastEvent.s].file.size = 0
    /\ message = "Uploading..."

\* C20: while the current session is still uploading (its notification has not
\* been sent) an inbound frame leaves the result label at the placeholder and
\* does not set the status to "Completed".
C20_NoResultBeforeSend ==
    [][ ( /\ lastEvent'.op = "message"
          /\ Current > 0
          /\ session[Current].pc = "upload" )
        => ( /\ numberPlate' = "Number plate: ....."
             /\ message' # "Completed" ) ]_vars

----------------------------------------------------------------------------
\* C21 (as stated): the result label changes only in a file selection, which
\* sets the placeholder, and in the handling of an inbound frame; every frame
\* that parses as JSON sets it to "Number plate: <message>"; no other step
\* changes it.
C21_PlateFrame ==
    [][ /\ numberPlate' # numberPlate
           => lastEvent'.op \in {"select", "message"}
        /\ ( lastEvent'.op = "select" /\ nSessions' > nSessions )
           => numberPlate' = "Number plate: ....."
        /\ ( lastEvent'.op = "message" /\ JSONparse(lastEvent'.data).ok )
           => numberPlate' =
                "Number plate: " \o JSONparse(lastEvent'.data).message ]_vars

\* C21 (amended): as above, but a frame sets the label only when it parses to
\* a value whose `message` can be read (anything but null); a frame that does
\* not parse, or parses to null, leaves the label unchanged.
C21_PlateFrameNonNull ==
    [][ /\ numberPlate' # numberPlate
           => lastEvent'.op \in {"select", "message"}
        /\ ( lastEvent'.op = "select" /\ nSessions' > nSessions )
           => numberPlate' = "Number plate: ....."
        /\ ( /\ lastEvent'.op = "message"
             /\ JSONparse(lastEvent'.data).ok
             /\ JSONparse(lastEvent'.data).isObject )
           => numberPlate' =
                "Number plate: " \o JSONparse(lastEvent'.data).message
        /\ ( /\ lastEvent'.op = "message"
             /\ ~( JSONparse(lastEvent'.data).ok
                   /\ JSONparse(lastEvent'.data).isObject ) )
           => numberPlate' = numberPlate ]_vars

\* A frame set the label, and a later timeout left it as it was.
C21_Witness ==
    /\ numberPlate = "Number plate: KA-01-HH-1234"
    /\ lastEvent.op = "timeout"
    /\ message = "No response from server yet. Check backend logs."

\* C22: when ws.send throws after the readyState check passed, the status
\* becomes "Failed to send message to websocket", no frame is on the channel,
\* no timer is started and responseTimeoutRef keeps its value; that session
\* never has a timer.
C22_SendThrows ==
    [][ /\ ( /\ lastEvent'.op = "done"
             /\ session[lastEvent'.s].pc = "upload"
             /\ session'[lastEvent'.s].pc = "sendFailed" )
           => ( /\ readyState = "OPEN"
                /\ message' = "Failed to send message to websocket"
                /\ wire' = wire
                /\ timers' = timers
                /\ responseTimeoutRef' = responseTimeoutRef )
        /\ \A s \in Sessions :
             session'[s].pc = "sendFailed"
               => ~SentBy(s)' /\ timers'[s] = "none" ]_vars

\* The send of the second session threw while the timer of the first was
\* stored and pending: the reference still names the first one.
C22_Witness ==
    /\ lastEvent.op = "done"
    /\ lastEvent.s = 2
    /\ session[2].pc = "sendFailed"
    /\ message = "Failed to send message to websocket"
    /\ responseTimeoutRef = 1
    /\ timers[1] = "pending"

====
